---------------------------- MODULE Spec2Model ----------------------------
(***************************************************************************)
(* The M-Pesa STK push relay of src/main.py as a state machine.            *)
(*                                                                         *)
(* State: the Firestore collection mpesa_transactions, the position of the *)
(* initiate handler and of the check-status handler between their network  *)
(* calls, and the last acknowledgment given to the gateway's callback.     *)
(*                                                                         *)
(* Values that arrive in a request body or an upstream reply carry their   *)
(* JSON type: [t |-> "int", v |-> 1032], [t |-> "str", v |-> ...], ...     *)
(* Values the code builds itself with a fixed type (status strings, the    *)
(* callback_received flag, the int amount) are plain TLA+ values.  Text    *)
(* that the code reads or builds character by character is a sequence of   *)
(* one-character strings; text it only passes along is a TLA+ string.      *)
(*                                                                         *)
(* Left out of a document: the three SERVER_TIMESTAMP fields (timestamp,   *)
(* callback_timestamp, last_queried), which no handler modelled here reads *)
(* back.                                                                   *)
(***************************************************************************)
EXTENDS Integers, Sequences, FiniteSets, TLC

VARIABLES
    store,    \* the collection: checkout_request_id -> document (a dict)
    issued,   \* how many CheckoutRequestIDs the gateway has issued
    stk,      \* the initiate_stk_push handler between its steps
    poll,     \* the check_transaction_status handler between its steps
    ack,      \* the body last returned to the gateway by mpesa_callback
    redelivered, \* history: the last callback applied was the very body
                 \* already stored as the record's raw_callback
    got,      \* the response last returned by get_transaction
    delivered,   \* the gateway: ids whose callback it has sent (it sends
                 \* the callback of a transaction once)
    formatted \* format_phone_number on its own: argument and result

vars == <<store, issued, stk, poll, ack, redelivered, got, delivered, formatted>>

\* What the three handlers with steps leave alone
side == <<got, delivered, formatted>>

(***************************************************************************)
(* Bounds.                                                                 *)
(***************************************************************************)
\* Longest phone_number, in characters, of the strings enumerated in full.
MaxPhoneLen == 3

\* Number of push requests the gateway acknowledges (documents created).
MaxTx == 1

(***************************************************************************)
(* JSON / Python values.                                                   *)
(***************************************************************************)
JNull == [t |-> "null"]

JInt(n) == [t |-> "int", v |-> n]

\* A float with one decimal digit: v.f
JFloat(w, d) == [t |-> "float", v |-> w, f |-> d]

JStr(s) == [t |-> "str", v |-> s]

JList(s) == [t |-> "list", v |-> s]

JDict(m) == [t |-> "dict", v |-> m]

\* A request body that is not JSON at all: request.json() raises on it.
NotJson == [t |-> "invalid"]

EmptyDict == JDict(<<>>)

\* dict.get(key, default) on the mapping of a dict
Get(m, key, default) == IF key \in DOMAIN m THEN m[key] ELSE default

\* `x is None` in the place of `not x`: an empty string passes
FalsyNoneOnly(x) == x.t = "null"

\* Python truthiness, negated: `not x`
Falsy(x) ==
    CASE x.t = "null" -> TRUE
      [] x.t = "int" -> x.v = 0
      [] x.t = "float" -> x.v = 0 /\ x.f = 0
      [] x.t = "str" -> Len(x.v) = 0
      [] x.t = "list" -> x.v = <<>>
      [] x.t = "dict" -> DOMAIN x.v = {}
      [] OTHER -> FALSE

\* Python `x == n` for an int literal n
EqInt(x, n) ==
    \/ x.t = "int" /\ x.v = n
    \/ x.t = "float" /\ x.v = n /\ x.f = 0

\* Python `x == s` for a str literal s
EqStr(x, s) == x.t = "str" /\ x.v = s

Digits == <<"0", "1", "2", "3", "4", "5", "6", "7", "8", "9">>

IsDigit(c) == \E i \in 1..10 : Digits[i] = c

DigitValue(c) == (CHOOSE i \in 1..10 : Digits[i] = c) - 1

\* str(n) for an int n >= 0, as characters
RECURSIVE IntToStr(_)
IntToStr(n) ==
    IF n < 10 THEN <<Digits[n + 1]>>
    ELSE Append(IntToStr(n \div 10), Digits[(n % 10) + 1])

\* int(s) for a string of digits
RECURSIVE DigitsToInt(_)
DigitsToInt(s) ==
    IF s = <<>> THEN 0
    ELSE 10 * DigitsToInt(SubSeq(s, 1, Len(s) - 1)) + DigitValue(s[Len(s)])

Raised == [raised |-> TRUE]

Value(x) == [raised |-> FALSE, value |-> x]

\* float(x): a number converts, a string of digits parses, anything else
\* raises (ValueError for text that is no number, TypeError for None etc.)
PyFloat(x) ==
    CASE x.t = "int" -> Value(JFloat(x.v, 0))
      [] x.t = "float" -> Value(x)
      [] x.t = "str" ->
            IF x.v # <<>> /\ \A i \in 1..Len(x.v) : IsDigit(x.v[i])
            THEN Value(JFloat(DigitsToInt(x.v), 0))
            ELSE Raised
      [] OTHER -> Raised

\* str(x), as characters
PyStr(x) ==
    CASE x.t = "str" -> x.v
      [] x.t = "int" -> IntToStr(x.v)
      [] x.t = "float" -> IntToStr(x.v) \o <<".">> \o IntToStr(x.f)
      [] x.t = "null" -> <<"N", "o", "n", "e">>

\* int(x) left out
PyIntKeeps(x) == x

\* int(x) for a number: truncation
PyInt(x) == IF x.t = "float" THEN JInt(x.v) ELSE x

\* isinstance(x, (int, float))
IsNumber(x) == x.t \in {"int", "float"}

(***************************************************************************)
(* The collection.                                                         *)
(***************************************************************************)
\* CheckoutRequestIDs the gateway issues, in order of issue
IdNames == <<"ws_CO_1", "ws_CO_2", "ws_CO_3", "ws_CO_4">>

CheckoutId(n) == IdNames[n]

\* The MerchantRequestID the gateway sends along with the n-th id
MerchantNames == <<"mr_1", "mr_2", "mr_3", "mr_4">>

MerchantId(n) == JStr(MerchantNames[n])

IssuedIds == {CheckoutId(n) : n \in 1..MaxTx}

\* An id the gateway never issued
UnknownId == "ws_CO_0"

AllIds == IssuedIds \cup {UnknownId}

\* DocumentSnapshot.exists
Exists(id) == id \in DOMAIN store

\* set() that writes nothing
StoreSetNowhere(id, data) == store

\* DocumentReference.set(data): creates or replaces the document
StoreSet(id, data) == (id :> data) @@ store

\* Merge adding the confirmed amount to the one the document holds
MergeAccumulating(doc, fields) ==
    IF "confirmed_amount" \in DOMAIN fields /\ "confirmed_amount" \in DOMAIN doc
    THEN [confirmed_amount |->
              [t |-> "float",
               v |-> doc.confirmed_amount.v + fields.confirmed_amount.v,
               f |-> doc.confirmed_amount.f]]
         @@ fields @@ doc
    ELSE fields @@ doc

\* dict.update / the merge DocumentReference.update(fields) performs on an
\* existing document: the fields given replace, the others stay
Merge(doc, fields) == fields @@ doc

\* DocumentReference.update(fields) on an existing document
StoreUpdate(id, fields) == [store EXCEPT ![id] = Merge(store[id], fields)]

\* transaction_data.get('callback_received', False)
CallbackReceived(doc) == Get(doc, "callback_received", FALSE)

(***************************************************************************)
(* mpesa_callback                                                          *)
(***************************************************************************)
\* CallbackStatus with the failure branch forgotten: only success is mapped
CallbackStatusLax(result_code) ==
    IF EqInt(result_code, 0) THEN "completed" ELSE "pending"

\* The status the callback path gives a ResultCode (lines 272-307)
CallbackStatus(result_code) ==
    IF EqInt(result_code, 0) THEN "completed"
    ELSE IF EqInt(result_code, 1032) THEN "cancelled"
    ELSE IF EqInt(result_code, 1037) THEN "expired"
    ELSE IF EqInt(result_code, 1) THEN "insufficient_funds"
    ELSE "failed"

\* One pass of the body of `for item in items` (lines 281-297): the update
\* with the item merged in, or Raised
ExtractItem(item, update) ==
    IF item.t # "dict" \/ "Name" \notin DOMAIN item.v THEN Raised
    ELSE LET name == item.v["Name"]
             known == \/ EqStr(name, "Amount")
                      \/ EqStr(name, "MpesaReceiptNumber")
                      \/ EqStr(name, "TransactionDate")
                      \/ EqStr(name, "PhoneNumber")
         IN  IF ~known THEN Value(update)
             ELSE IF "Value" \notin DOMAIN item.v THEN Raised
             ELSE LET val == item.v["Value"] IN
                  IF EqStr(name, "Amount") THEN
                      IF PyFloat(val).raised THEN Raised
                      ELSE Value(Merge(update,
                               [confirmed_amount |-> PyFloat(val).value]))
                  ELSE IF EqStr(name, "MpesaReceiptNumber") THEN
                      Value(Merge(update, [mpesa_receipt_number |-> PyStr(val)]))
                  ELSE IF EqStr(name, "TransactionDate") THEN
                      Value(Merge(update, [transaction_date |-> PyStr(val)]))
                  ELSE IF IsNumber(val) THEN
                      Value(Merge(update,
                               [confirmed_phone_number |-> PyStr(PyInt(val))]))
                  ELSE
                      Value(Merge(update,
                               [confirmed_phone_number |-> PyStr(val)]))

\* The loop over items, from item i on
RECURSIVE ExtractItems(_, _, _)
ExtractItems(items, i, update) ==
    IF i > Len(items) THEN Value(update)
    ELSE LET one == ExtractItem(items[i], update) IN
         IF one.raised THEN Raised
         ELSE ExtractItems(items, i + 1, one.value)

\* Lines 276-297: the metadata of a successful callback merged into the
\* update, or Raised
ExtractMetadata(stkCallback, update) ==
    IF "CallbackMetadata" \notin DOMAIN stkCallback THEN Value(update)
    ELSE LET meta == stkCallback["CallbackMetadata"] IN
         IF meta.t # "dict" THEN Raised
         ELSE LET items == Get(meta.v, "Item", JList(<<>>)) IN
              IF items.t # "list" THEN Raised
              ELSE ExtractItems(items.v, 1, update)

\* TransactionUpdate extracting the metadata whatever the ResultCode
TransactionUpdateExtractsAlways(callback_data, stkCallback) ==
    LET result_code == Get(stkCallback, "ResultCode", JNull)
        result_desc == Get(stkCallback, "ResultDesc", JNull)
        base == [result_code |-> result_code,
                 result_description |-> result_desc,
                 callback_received |-> TRUE,
                 raw_callback |-> callback_data]
    IN  ExtractMetadata(stkCallback,
                        Merge(base, [status |-> CallbackStatus(result_code)]))

\* Lines 263-307: the update a callback carrying a checkout id asks for
TransactionUpdate(callback_data, stkCallback) ==
    LET result_code == Get(stkCallback, "ResultCode", JNull)
        result_desc == Get(stkCallback, "ResultDesc", JNull)
        base == [result_code |-> result_code,
                 result_description |-> result_desc,
                 callback_received |-> TRUE,
                 raw_callback |-> callback_data]
    IN  IF EqInt(result_code, 0)
        THEN ExtractMetadata(stkCallback,
                             Merge(base, [status |-> "completed"]))
        ELSE Value(Merge(base, [status |-> CallbackStatus(result_code)]))

\* The replies of the handler (lines 257, 313-316, 323-326)
AckInvalid ==
    [http |-> 200,
     body |-> [ResultCode |-> 1, ResultDesc |-> "Invalid callback data"]]

AckProcessed ==
    [http |-> 200,
     body |-> [ResultCode |-> 0,
               ResultDesc |-> "Callback processed successfully"]]

AckFailed ==
    [http |-> 200,
     body |-> [ResultCode |-> 1, ResultDesc |-> "Callback processing failed"]]

\* An exception leaving a handler: the framework answers 500
ServerFault == [http |-> 500, body |-> <<>>]

\* The outcome of the try block (lines 244-316) on a request body, the
\* collection being `docs`: Raised, or the reply and the update to apply
Return(reply, writes) == [raised |-> FALSE, reply |-> reply, writes |-> writes]

CallbackTry(body, docs) ==
    IF body.t # "dict" THEN Raised      \* request.json() or .get raises
    ELSE LET b == Get(body.v, "Body", EmptyDict) IN
    IF b.t # "dict" THEN Raised
    ELSE LET stkCallback == Get(b.v, "stkCallback", EmptyDict) IN
    IF stkCallback.t # "dict" THEN Raised
    ELSE LET checkout_request_id ==
                 Get(stkCallback.v, "CheckoutRequestID", JNull) IN
    IF Falsy(checkout_request_id) THEN Return(AckInvalid, <<>>)
    ELSE IF checkout_request_id.t # "str" THEN Raised  \* document(non-str)
    ELSE LET transaction_update == TransactionUpdate(body, stkCallback.v) IN
    IF transaction_update.raised THEN Raised
    ELSE IF checkout_request_id.v \notin DOMAIN docs
         THEN Raised                     \* update() of a missing document
    ELSE Return(AckProcessed,
                <<[id |-> checkout_request_id.v,
                   fields |-> transaction_update.value]>>)

\* The handler without its except clause: the exception leaves the handler
CallbackExceptPropagates == Return(ServerFault, <<>>)

\* The except clause (lines 318-326)
CallbackExcept == Return(AckFailed, <<>>)

\* The whole handler on one request body
CallbackOutcome(body, docs) ==
    IF CallbackTry(body, docs).raised THEN CallbackExcept
    ELSE CallbackTry(body, docs)

mpesa_callback(body) ==
    LET out == CallbackOutcome(body, store) IN
    /\ UNCHANGED <<issued, stk, poll, got, formatted>>
    /\ store' = IF out.writes = <<>> THEN store
                ELSE StoreUpdate(out.writes[1].id, out.writes[1].fields)
    /\ ack' = <<out.reply>>
    /\ redelivered' =
           /\ out.writes # <<>>
           /\ "raw_callback" \in DOMAIN store[out.writes[1].id]
           /\ store[out.writes[1].id].raw_callback = body

(***************************************************************************)
(* initiate_stk_push                                                       *)
(***************************************************************************)
StartsWith(s, prefix) ==
    Len(s) >= Len(prefix) /\ SubSeq(s, 1, Len(prefix)) = prefix

\* format_phone_number without the branch of lines 132-133 (leading 0)
format_phone_number_prepends(phone_number) ==
    LET digits == SelectSeq(phone_number, IsDigit) IN
    IF ~StartsWith(digits, <<"2", "5", "4">>)
    THEN <<"2", "5", "4">> \o digits
    ELSE digits

\* Lines 127-136, on a string given as its characters
format_phone_number(phone_number) ==
    LET digits == SelectSeq(phone_number, IsDigit) IN
    IF StartsWith(digits, <<"0">>) THEN <<"2", "5", "4">> \o Tail(digits)
    ELSE IF ~StartsWith(digits, <<"2", "5", "4">>)
         THEN <<"2", "5", "4">> \o digits
    ELSE digits

\* A handler of an APIResponse endpoint raising HTTPException(code, detail)
\* inside its try block
HttpError(code, detail) == [raised |-> TRUE, code |-> code, detail |-> detail]

\* The `except Exception` clause of initiate_stk_push (lines 234-238) and
\* of check_transaction_status (lines 442-450): HTTPException is an
\* Exception, so whatever the try block raised is answered as a 500 whose
\* detail quotes it
Unexpected(e) ==
    [http |-> 500,
     detail |-> <<"An unexpected error occurred", e.code, e.detail>>]

\* The RequestException swallowed and answered as a success
UnreachableSilent == [http |-> 200, detail |-> <<>>]

\* The `except requests.exceptions.RequestException` clause (lines 229-233
\* and 437-441)
Unreachable ==
    [http |-> 500, detail |-> <<"Failed to communicate with M-Pesa API">>]

IdleStk == [pc |-> "idle", id |-> "", data |-> <<>>, calls |-> {},
            result |-> <<>>, resp |-> <<>>]

\* Line 196 with every push result accepted
AcceptedAlways(result) == TRUE

\* Line 196: result.get('ResponseCode') == '0'
Accepted(result) == EqStr(Get(result, "ResponseCode", JNull), "0")

\* Lines 146-208: validation, token, push.  `token_ok` and `push` are the
\* gateway's answers: push is <<>> when the call fails (transport or HTTP
\* error) and <<result>> when the gateway answers with the JSON object
\* `result`; the CheckoutRequestID and MerchantRequestID of an accepted
\* push are the next ones the gateway issues.
InitiatePush(phone, amount, token_ok, push) ==
    /\ stk.pc = "idle"
    /\ (push # <<>> /\ Accepted(push[1])) => issued < MaxTx
    /\ LET phone_number == format_phone_number(phone)
           amt == PyInt(amount)
           checkout_id == CheckoutId(issued + 1)
           fail(calls, result, resp) ==
               /\ stk' = [IdleStk EXCEPT !.pc = "done", !.calls = calls,
                                         !.result = result, !.resp = resp]
               /\ issued' = issued
       IN  IF ~(Len(phone_number) = 12
                 /\ \A i \in 1..Len(phone_number) : IsDigit(phone_number[i]))
           THEN
               fail({}, <<>>, Unexpected(HttpError(400,
                        "Invalid phone number format. Use format: 0722000000 or 254722000000")))
           ELSE IF amt.v <= 0 THEN
               fail({}, <<>>, Unexpected(HttpError(400,
                        "Amount must be greater than 0")))
           ELSE IF ~token_ok THEN
               fail({"token"}, <<>>, Unexpected(HttpError(500,
                        "Error getting access token")))
           ELSE IF push = <<>> THEN
               fail({"token", "push"}, <<>>, Unreachable)
           ELSE IF ~Accepted(push[1]) THEN
               fail({"token", "push"}, push,
                    Unexpected(HttpError(400,
                        <<"STK push request failed",
                          Get(push[1], "errorMessage",
                              JStr("Unknown error"))>>)))
           ELSE
               /\ issued' = issued + 1
               /\ stk' = [IdleStk EXCEPT
                            !.pc = "acked",
                            !.id = checkout_id,
                            !.calls = {"token", "push"},
                            !.result = push,
                            !.data = [phone_number |-> phone_number,
                                      amount |-> amt,
                                      checkout_request_id |-> checkout_id,
                                      status |-> "pending",
                                      merchant_request_id |->
                                          MerchantId(issued + 1),
                                      account_reference |-> "CompanyXYZ",
                                      transaction_desc |->
                                          "Payment for services"]]
    /\ UNCHANGED <<store, poll, ack, redelivered, side>>

\* Lines 211-222: the document is written and the request answered
InitiateStore ==
    /\ stk.pc = "acked"
    /\ store' = StoreSet(stk.id, stk.data)
    /\ stk' = [stk EXCEPT
                 !.pc = "done",
                 !.data = <<>>,
                 !.resp = [http |-> 200,
                           data |-> [checkout_request_id |-> stk.id,
                                     merchant_request_id |->
                                         stk.data.merchant_request_id,
                                     phone_number |-> stk.data.phone_number,
                                     amount |-> stk.data.amount]]]
    /\ UNCHANGED <<issued, poll, ack, redelivered, side>>

\* The response has been sent; the handler takes the next request
InitiateReturn ==
    /\ stk.pc = "done"
    /\ stk' = IdleStk
    /\ UNCHANGED <<store, issued, poll, ack, redelivered, side>>

(***************************************************************************)
(* check_transaction_status                                                *)
(***************************************************************************)
\* PollStatus with no final else: a code it does not name is left pending
PollStatusLax(result_code) ==
    IF EqInt(result_code, 0) THEN "completed"
    ELSE IF EqInt(result_code, 1032) THEN "cancelled"
    ELSE IF EqInt(result_code, 1037) THEN "expired"
    ELSE IF EqInt(result_code, 1031) THEN "cancelled"
    ELSE IF EqInt(result_code, 1) THEN "insufficient_funds"
    ELSE "pending"

\* PollStatus without the branch of line 414 (1031)
PollStatusShort(result_code) ==
    IF EqInt(result_code, 0) THEN "completed"
    ELSE IF EqInt(result_code, 1032) THEN "cancelled"
    ELSE IF EqInt(result_code, 1037) THEN "expired"
    ELSE IF EqInt(result_code, 1) THEN "insufficient_funds"
    ELSE "failed"

\* The status the poll path gives a ResultCode (lines 408-419)
PollStatus(result_code) ==
    IF EqInt(result_code, 0) THEN "completed"
    ELSE IF EqInt(result_code, 1032) THEN "cancelled"
    ELSE IF EqInt(result_code, 1037) THEN "expired"
    ELSE IF EqInt(result_code, 1031) THEN "cancelled"
    ELSE IF EqInt(result_code, 1) THEN "insufficient_funds"
    ELSE "failed"

\* Python's None, for a key a .get() does not find
None == JNull

IdlePoll == [pc |-> "idle", id |-> "", data |-> <<>>, result |-> <<>>,
             calls |-> {}, wrote |-> FALSE, resp |-> <<>>]

\* StoredResponse reading the poll's fields instead of the callback's
StoredResponseQueried(checkout_request_id, transaction_data) ==
    [http |-> 200,
     message |-> "Transaction status retrieved from database",
     data |-> [checkout_request_id |-> checkout_request_id,
               status |-> Get(transaction_data, "status", None),
               result_code |->
                   Get(transaction_data, "query_result_code", None),
               result_description |->
                   Get(transaction_data, "query_result_description", None),
               receipt_number |->
                   Get(transaction_data, "mpesa_receipt_number", None),
               amount |-> Get(transaction_data, "amount", None),
               phone_number |-> Get(transaction_data, "phone_number", None),
               transaction_date |->
                   Get(transaction_data, "transaction_date", None)]]

\* Lines 347-361: the answer built from the stored document
StoredResponse(checkout_request_id, transaction_data) ==
    [http |-> 200,
     message |-> "Transaction status retrieved from database",
     data |-> [checkout_request_id |-> checkout_request_id,
               status |-> Get(transaction_data, "status", None),
               result_code |-> Get(transaction_data, "result_code", None),
               result_description |->
                   Get(transaction_data, "result_description", None),
               receipt_number |->
                   Get(transaction_data, "mpesa_receipt_number", None),
               amount |-> Get(transaction_data, "confirmed_amount",
                              Get(transaction_data, "amount", None)),
               phone_number |->
                   Get(transaction_data, "confirmed_phone_number",
                       Get(transaction_data, "phone_number", None)),
               transaction_date |->
                   Get(transaction_data, "transaction_date", None)]]

\* AnswerFromStore without the callback_received test: always ask the gateway
AnswerFromStoreNever(transaction_data) == FALSE

\* Line 347: whether the stored document already answers the request
AnswerFromStore(transaction_data) == CallbackReceived(transaction_data)

\* Lines 333-370: the document is read; the request is answered from it,
\* fails, or goes on to the gateway
PollRead(checkout_request_id) ==
    /\ poll.pc = "idle"
    /\ LET done(resp) == poll' = [IdlePoll EXCEPT
                                     !.pc = "done",
                                     !.id = checkout_request_id,
                                     !.resp = resp]
       IN  IF ~Exists(checkout_request_id) THEN
               done(Unexpected(HttpError(404, "Transaction not found")))
           ELSE LET transaction_data == store[checkout_request_id] IN
                IF AnswerFromStore(transaction_data) THEN
                    done(StoredResponse(checkout_request_id, transaction_data))
                ELSE IF Falsy(Get(transaction_data, "merchant_request_id",
                                  None))
                THEN done(Unexpected(HttpError(400,
                         "Merchant request ID not found for this transaction")))
                ELSE poll' = [IdlePoll EXCEPT !.pc = "token",
                                              !.id = checkout_request_id,
                                              !.data = transaction_data]
    /\ UNCHANGED <<store, issued, stk, ack, redelivered, side>>

\* Line 373: get_access_token(), which the gateway answers or not
PollToken(token_ok) ==
    /\ poll.pc = "token"
    /\ poll' = IF token_ok
               THEN [poll EXCEPT !.pc = "query", !.calls = @ \cup {"token"}]
               ELSE [poll EXCEPT
                       !.pc = "done",
                       !.calls = @ \cup {"token"},
                       !.resp = Unexpected(HttpError(500,
                                    "Error getting access token"))]
    /\ UNCHANGED <<store, issued, stk, ack, redelivered, side>>

\* Lines 393-399: the query call.  `reply` is <<>> when the call fails
\* (transport or HTTP error) and <<result>> when the gateway answers with
\* the JSON object `result`.
PollQuery(reply) ==
    /\ poll.pc = "query"
    /\ poll' = IF reply = <<>>
               THEN [poll EXCEPT !.pc = "done",
                                 !.calls = @ \cup {"query"},
                                 !.resp = Unreachable]
               ELSE [poll EXCEPT
                       !.pc = "write",
                       !.calls = @ \cup {"query"},
                       !.result = [result_code |->
                                       Get(reply[1], "ResultCode", None),
                                   result_desc |->
                                       Get(reply[1], "ResultDesc", None)]]
    /\ UNCHANGED <<store, issued, stk, ack, redelivered, side>>

\* StatusUpdate clearing the callback's flag
StatusUpdateClearsFlag(result_code, result_desc) ==
    [callback_received |-> FALSE,
     query_result_code |-> result_code,
     query_result_description |-> result_desc,
     status |-> PollStatus(result_code)]

\* StatusUpdate writing the callback's two fields as well
StatusUpdateShared(result_code, result_desc) ==
    [result_code |-> result_code,
     result_description |-> result_desc,
     query_result_code |-> result_code,
     query_result_description |-> result_desc,
     status |-> PollStatus(result_code)]

\* Lines 401-419: the fields the poll writes
StatusUpdate(result_code, result_desc) ==
    [query_result_code |-> result_code,
     query_result_description |-> result_desc,
     status |-> PollStatus(result_code)]

\* Lines 422-435: the update and the answer
PollWrite ==
    /\ poll.pc = "write"
    /\ LET status_update ==
               StatusUpdate(poll.result.result_code, poll.result.result_desc)
       IN  IF ~Exists(poll.id) THEN
               /\ store' = store
               /\ poll' = [poll EXCEPT
                             !.pc = "done",
                             !.resp = Unexpected(HttpError(404,
                                          "No document to update"))]
           ELSE
               /\ store' = StoreUpdate(poll.id, status_update)
               /\ poll' = [poll EXCEPT
                             !.pc = "done",
                             !.wrote = TRUE,
                             !.resp =
                               [http |-> 200,
                                message |->
                                  "Transaction status retrieved from M-Pesa API",
                                data |->
                                  [checkout_request_id |-> poll.id,
                                   status |-> status_update.status,
                                   result_code |-> poll.result.result_code,
                                   result_description |->
                                       poll.result.result_desc,
                                   amount |-> Get(poll.data, "amount", None),
                                   phone_number |->
                                       Get(poll.data, "phone_number", None)]]]
    /\ UNCHANGED <<issued, stk, ack, redelivered, side>>

\* The response has been sent; the handler takes the next request
PollReturn ==
    /\ poll.pc = "done"
    /\ poll' = IdlePoll
    /\ UNCHANGED <<store, issued, stk, ack, redelivered, side>>

(***************************************************************************)
(* get_transaction                                                         *)
(***************************************************************************)
\* The `except Exception` clause of get_transaction (lines 480-484): the
\* HTTPException raised in the try block is answered as a 500 quoting it
LookupFailed(e) ==
    [http |-> 500,
     detail |-> <<"An error occurred while retrieving the transaction",
                  e.code, e.detail>>]

\* Lines 454-484: the document is read and returned, in one store access
get_transaction(checkout_request_id) ==
    /\ got' = IF ~Exists(checkout_request_id)
              THEN <<LookupFailed(HttpError(404, "Transaction not found"))>>
              ELSE <<[http |-> 200,
                      message |-> "Transaction retrieved successfully",
                      data |-> store[checkout_request_id]]>>
    /\ UNCHANGED <<store, issued, stk, poll, ack, redelivered, delivered,
                   formatted>>

(***************************************************************************)
(* The requests and gateway answers the handlers are driven with.          *)
(***************************************************************************)
\* The ResultDesc the gateway sends with a code
GatewayDesc(code) ==
    CASE code.v = 0 -> JStr("The service request is processed successfully.")
      [] code.v = 1 -> JStr("The balance is insufficient for the transaction.")
      [] code.v = 1031 -> JStr("Request cancelled by the user.")
      [] code.v = 1032 -> JStr("Request cancelled by user")
      [] code.v = 1037 -> JStr("DS timeout user cannot be reached")
      [] OTHER -> JStr("The initiator information is invalid.")

Item(name, value) == JDict([Name |-> JStr(name), Value |-> value])

Receipt1 == JStr(<<"A", "B", "C", "1", "2", "3">>)

Receipt2 == JStr(<<"X", "Y", "Z", "7", "8", "9">>)

PhoneText == <<"2", "5", "4", "7", "2", "2", "0", "0", "0">>

\* The Item lists of CallbackMetadata.  Numbers stay below 2^31; Python's
\* ints are unbounded, so their size does not change a conversion.
FullItems ==
    <<Item("Amount", JInt(100)),
      Item("MpesaReceiptNumber", Receipt1),
      JDict([Name |-> JStr("Balance")]),
      Item("TransactionDate", JInt(20260101)),
      Item("PhoneNumber", JInt(254722000))>>

PartialItems ==
    <<Item("MpesaReceiptNumber", Receipt2),
      Item("PhoneNumber", JFloat(254722000, 0))>>

TextItems ==
    <<Item("Amount", JStr(<<"1", "0", "0">>)),
      Item("PhoneNumber", JStr(PhoneText))>>

BadAmountItems ==
    <<Item("MpesaReceiptNumber", Receipt2),
      Item("Amount", JStr(<<"a", "b", "c">>))>>

NamelessItems == <<JDict([Value |-> JInt(5)])>>

GoodItemLists == {<<>>, FullItems, PartialItems, TextItems}

BadItemLists == {BadAmountItems, NamelessItems}

ItemLists == GoodItemLists \cup BadItemLists

Envelope(stkCallback) ==
    JDict([Body |-> JDict([stkCallback |-> JDict(stkCallback)])])

StkCallback(id, code) ==
    [CheckoutRequestID |-> id, ResultCode |-> code,
     ResultDesc |-> GatewayDesc(code)]

WithMetadata(stkCallback, items) ==
    [CallbackMetadata |-> JDict([Item |-> JList(items)])] @@ stkCallback

\* A callback for `id` with `code` and no CallbackMetadata
PlainBody(id, code) == Envelope(StkCallback(JStr(id), code))

\* A callback for `id` with `code` and the metadata `items`
MetadataBody(id, code, items) ==
    Envelope(WithMetadata(StkCallback(JStr(id), code), items))

\* Callbacks without a checkout id: none, an empty one, a null one, no
\* stkCallback, no Body
UnidentifiedBodies ==
    {Envelope([ResultCode |-> JInt(0),
               ResultDesc |-> GatewayDesc(JInt(0))]),
     Envelope(StkCallback(JStr(""), JInt(0))),
     Envelope(StkCallback(JNull, JInt(1032))),
     JDict([Body |-> EmptyDict]),
     EmptyDict}

\* Bodies of another shape: not JSON, a JSON list, a Body or stkCallback
\* that is no object, an id that is no string, metadata that is no object
OddBodies ==
    {NotJson,
     JList(<<>>),
     JDict([Body |-> JNull]),
     JDict([Body |-> JDict([stkCallback |-> JList(<<>>)])]),
     Envelope(StkCallback(JInt(7), JInt(0))),
     Envelope([CallbackMetadata |-> JNull]
              @@ StkCallback(JStr(CheckoutId(1)), JInt(0)))}

\* phone_number of an initiate request, as characters
LocalPhone == <<"0", "7", "2", "2", "0", "0", "0", "0", "0", "0">>

PhoneInputs ==
    {LocalPhone,
     <<"2", "5", "4", "7", "2", "2", "0", "0", "0", "0", "0", "0">>,
     <<"+", "2", "5", "4", " ", "7", "2", "2", "-", "0", "0", "0", "0", "0",
       "0">>,
     <<"7", "2", "2", "0", "0", "0", "0", "0", "0">>,
     <<"0", "7", "2", "2", "0">>,
     <<>>}

\* amount of an initiate request: 100.0, 0.5, 0.0, -1.0
AmountInputs ==
    {JFloat(100, 0), JFloat(0, 5), JFloat(0, 0), JFloat(-1, 0)}

\* The gateway's answer to a query call that it answers with `code`
QueryReply(code) ==
    <<[ResultCode |-> code, ResultDesc |-> GatewayDesc(code)]>>

\* The query call failing (transport or HTTP error)
NoReply == <<>>

\* The gateway's answers to a push: accepted, rejected with and without an
\* errorMessage, and the call failing
PushAccepted == <<[ResponseCode |-> JStr("0")]>>

PushRejected ==
    <<[ResponseCode |-> JStr("1"),
       errorMessage |-> JStr("Unable to lock subscriber")]>>

PushRejectedBare == <<[ResponseCode |-> JStr("1")]>>

PushFailed == <<>>

PushReplies == {PushAccepted, PushRejected, PushRejectedBare, PushFailed}

(***************************************************************************)
(* The system.                                                             *)
(***************************************************************************)
Init ==
    /\ store = <<>>
    /\ issued = 0
    /\ stk = IdleStk
    /\ poll = IdlePoll
    /\ ack = <<>>
    /\ redelivered = FALSE
    /\ got = <<>>
    /\ delivered = {}
    /\ formatted = <<>>

Initiate(phones, amounts, tokens, pushes) ==
    \E phone \in phones, amount \in amounts, token_ok \in tokens,
       push \in pushes :
        InitiatePush(phone, amount, token_ok, push)

\* A callback request from anyone, at any time
Callback(bodies) ==
    /\ \E body \in bodies : mpesa_callback(body)
    /\ UNCHANGED delivered

CheckStatus(ids) == \E id \in ids : PollRead(id)

GetTransaction(ids) == \E id \in ids : get_transaction(id)

Token(tokens) == \E token_ok \in tokens : PollToken(token_ok)

Query(replies) == \E reply \in replies : PollQuery(reply)

(***************************************************************************)
(* Spec: callbacks and status checks racing on the issued transactions.    *)
(* The gateway reports success (0) or cancellation (1032) on either path.  *)
(***************************************************************************)
RaceCodes == {JInt(0), JInt(1032)}

RaceBodies == {PlainBody(id, code) : id \in IssuedIds, code \in RaceCodes}

RaceReplies == {NoReply} \cup {QueryReply(code) : code \in RaceCodes}

Next ==
    \/ Initiate({LocalPhone}, {JFloat(100, 0)}, {TRUE},
                {PushAccepted, PushRejected})
    \/ InitiateStore
    \/ InitiateReturn
    \/ Callback(RaceBodies)
    \/ CheckStatus(IssuedIds)
    \/ Token(BOOLEAN)
    \/ Query(RaceReplies)
    \/ PollWrite
    \/ PollReturn

Spec == Init /\ [][Next]_vars

(***************************************************************************)
(* SpecCallback: the callback handler alone, driven with every shape of    *)
(* request body, for ids of records and for an id of no record.            *)
(***************************************************************************)
\* The result codes the two mappings name, and one that neither names
ResultCodes ==
    {JInt(0), JInt(1), JInt(1031), JInt(1032), JInt(1037), JInt(2001)}

\* Callbacks that carry a checkout id: without metadata, and with metadata
\* whose extraction raises
IdentifiedBodies ==
    {PlainBody(id, code) : id \in AllIds, code \in ResultCodes}
    \cup {MetadataBody(id, JInt(0), items) :
             id \in AllIds, items \in BadItemLists}

CallbackBodies == IdentifiedBodies \cup UnidentifiedBodies \cup OddBodies

NextCallback ==
    \/ Initiate(PhoneInputs, AmountInputs, BOOLEAN, PushReplies)
    \/ InitiateStore
    \/ InitiateReturn
    \/ Callback(CallbackBodies)

SpecCallback == Init /\ [][NextCallback]_vars

(***************************************************************************)
(* SpecMetadata: callbacks for the issued transactions with every list of  *)
(* metadata items.                                                         *)
(***************************************************************************)
\* Successful callbacks (ResultCode 0), by metadata
SuccessBodies ==
    {MetadataBody(id, JInt(0), items) : id \in IssuedIds, items \in ItemLists}

MetadataBodies ==
    SuccessBodies
    \cup {MetadataBody(id, JInt(1032), FullItems) : id \in IssuedIds}

NextMetadata ==
    \/ Initiate({LocalPhone}, {JFloat(100, 0)}, {TRUE}, {PushAccepted})
    \/ InitiateStore
    \/ InitiateReturn
    \/ Callback(MetadataBodies)

SpecMetadata == Init /\ [][NextMetadata]_vars

(***************************************************************************)
(* SpecCodes: callbacks and status checks on the issued transactions, the  *)
(* gateway reporting every result code on either path.                     *)
(***************************************************************************)
\* Callbacks report a success (0) or a cancellation (1031)
CodesBodies ==
    {PlainBody(id, code) : id \in IssuedIds, code \in {JInt(0), JInt(1031)}}

CodesReplies == {NoReply} \cup {QueryReply(code) : code \in ResultCodes}

NextCodes ==
    \/ Initiate({LocalPhone}, {JFloat(100, 0)}, {TRUE}, {PushAccepted})
    \/ InitiateStore
    \/ InitiateReturn
    \/ Callback(CodesBodies)
    \/ CheckStatus(IssuedIds)
    \/ Token({TRUE})
    \/ Query(CodesReplies)
    \/ PollWrite
    \/ PollReturn

SpecCodes == Init /\ [][NextCodes]_vars

(***************************************************************************)
(* SpecLookup: status checks and lookups by id, for ids of records and for *)
(* an id of no record.                                                     *)
(***************************************************************************)
LookupBodies == {PlainBody(id, JInt(0)) : id \in IssuedIds}

NextLookup ==
    \/ Initiate({LocalPhone}, {JFloat(100, 0)}, {TRUE}, {PushAccepted})
    \/ InitiateStore
    \/ InitiateReturn
    \/ Callback(LookupBodies)
    \/ CheckStatus(AllIds)
    \/ Token({TRUE})
    \/ Query({QueryReply(JInt(1032))})
    \/ PollWrite
    \/ PollReturn
    \/ GetTransaction(AllIds)

SpecLookup == Init /\ [][NextLookup]_vars

(***************************************************************************)
(* SpecRecords: every handler that touches a record, for ids of records    *)
(* and for an id of no record; callbacks carry metadata whether they       *)
(* report success or not, and the gateway may fail a status check.         *)
(***************************************************************************)
\* An amount with a fraction: 1.9
FractionalAmount == JFloat(1, 9)

RecordsBodies ==
    {MetadataBody(id, code, PartialItems) :
        id \in IssuedIds, code \in {JInt(0), JInt(1032)}}
    \cup {MetadataBody(UnknownId, JInt(0), PartialItems)}

NextRecords ==
    \/ Initiate({LocalPhone}, {FractionalAmount}, {TRUE},
                {PushAccepted, PushRejected})
    \/ InitiateStore
    \/ InitiateReturn
    \/ Callback(RecordsBodies)
    \/ CheckStatus(AllIds)
    \/ Token(BOOLEAN)
    \/ Query({NoReply, QueryReply(JInt(0))})
    \/ PollWrite
    \/ PollReturn

SpecRecords == Init /\ [][NextRecords]_vars

(***************************************************************************)
(* SpecPhone: format_phone_number on its own, applied to one argument.     *)
(***************************************************************************)
\* Characters of a phone_number: digits that matter to the branches, other
\* digits, and characters that are no digits
PhoneAlphabet == {"0", "2", "5", "4", "7", "+", " "}

\* Every string over PhoneAlphabet of at most MaxPhoneLen characters
ShortPhones == UNION {[1..n -> PhoneAlphabet] : n \in 0..MaxPhoneLen}

NineDigits ==
    {<<"7", "2", "2", "0", "0", "0", "0", "0", "0">>,
     <<"0", "0", "0", "0", "0", "0", "0", "0", "0">>,
     <<"2", "5", "4", "7", "2", "2", "0", "0", "0">>,
     <<"0", "2", "5", "4", "1", "3", "6", "8", "9">>}

\* 10 digits with a leading 0, 12 digits with a leading 254, the same with
\* separators, and the strings of PhoneInputs
LongPhones ==
    {<<"0">> \o tail : tail \in NineDigits}
    \cup {<<"2", "5", "4">> \o tail : tail \in NineDigits}
    \cup {<<"+", "2", "5", "4", " ">> \o tail : tail \in NineDigits}
    \cup {<<"0", "0">> \o tail : tail \in NineDigits}
    \cup NineDigits
    \cup PhoneInputs

PhoneStrings == ShortPhones \cup LongPhones

InitPhone ==
    /\ store = <<>>
    /\ issued = 0
    /\ stk = IdleStk
    /\ poll = IdlePoll
    /\ ack = <<>>
    /\ redelivered = FALSE
    /\ got = <<>>
    /\ delivered = {}
    /\ \E phone_number \in PhoneStrings :
          formatted = [phone_number |-> phone_number, called |-> FALSE,
                       result |-> <<>>]

\* The call format_phone_number(phone_number) (lines 147 and 496)
FormatPhone ==
    /\ ~formatted.called
    /\ formatted' = [formatted EXCEPT
                        !.called = TRUE,
                        !.result = format_phone_number(formatted.phone_number)]
    /\ UNCHANGED <<store, issued, stk, poll, ack, redelivered, got,
                   delivered>>

NextPhone == FormatPhone

SpecPhone == InitPhone /\ [][NextPhone]_vars

(***************************************************************************)
(* SpecDelivery: the gateway sends the callback of a transaction once, at  *)
(* any time after it has accepted the push: before or after the initiate   *)
(* handler's store write.  Handlers that have started go on (weak          *)
(* fairness of their steps), and the gateway does send each callback.      *)
(***************************************************************************)
\* The ids of the pushes the gateway has accepted
AcceptedIds == {CheckoutId(n) : n \in 1..issued}

\* The gateway sends the callback of an accepted push it has not sent yet
Deliver ==
    \E id \in AcceptedIds \ delivered, code \in {JInt(0), JInt(1032)} :
        /\ mpesa_callback(PlainBody(id, code))
        /\ delivered' = delivered \cup {id}

NextDelivery ==
    \/ Initiate({LocalPhone}, {JFloat(100, 0)}, {TRUE}, {PushAccepted})
    \/ InitiateStore
    \/ InitiateReturn
    \/ Deliver
    \/ CheckStatus(IssuedIds)
    \/ Token(BOOLEAN)
    \/ Query({NoReply, QueryReply(JInt(0))})
    \/ PollWrite
    \/ PollReturn

SpecDelivery ==
    /\ Init
    /\ [][NextDelivery]_vars
    /\ WF_vars(InitiateStore)
    /\ WF_vars(InitiateReturn)
    /\ WF_vars(Deliver)
    /\ WF_vars(Token(BOOLEAN))
    /\ WF_vars(Query({NoReply, QueryReply(JInt(0))}))
    /\ WF_vars(PollWrite)
    /\ WF_vars(PollReturn)

(***************************************************************************)
(* Shorthands of the properties.                                           *)
(***************************************************************************)
Statuses ==
    {"pending", "completed", "cancelled", "expired", "insufficient_funds",
     "failed"}

\* The step is one of the check-status handler
PollStep == poll' # poll

\* The step is the check-status handler's store update, for `id`
PollWrites(id) == poll.pc = "write" /\ poll'.pc = "done" /\ poll.id = id

\* The check-status handler has just read a document whose
\* callback_received is true
ReadsReceived ==
    /\ poll.pc = "idle"
    /\ poll'.pc # "idle"
    /\ Exists(poll'.id)
    /\ CallbackReceived(store[poll'.id])

(***************************************************************************)
(* C1                                                                      *)
(***************************************************************************)
\* C1 as stated: in every reachable state a record with callback_received
\* = true has the status that the most recently applied callback (whose
\* ResultCode is the record's result_code) determined; no poll write
\* changes it.
C1_CallbackAuthoritative ==
    \A id \in DOMAIN store :
        CallbackReceived(store[id]) =>
            store[id].status = CallbackStatus(store[id].result_code)

\* C1 amended: the status of a record with callback_received = true is
\* changed only by a callback, to the status of that callback's ResultCode,
\* or by the store update of a check-status request whose own store read
\* found callback_received not yet true; a request whose read found it true
\* never goes on to the gateway or to a write.
C1_OnlyEarlierReadOverwrites ==
    [][/\ \A id \in DOMAIN store :
            (CallbackReceived(store[id])
             /\ store'[id].status # store[id].status) =>
                IF PollStep
                THEN PollWrites(id) /\ ~CallbackReceived(poll.data)
                ELSE store'[id].status =
                         CallbackStatus(store'[id].result_code)
       /\ poll'.pc \in {"token", "query", "write"} =>
            ~CallbackReceived(poll'.data)]_vars

\* The race has happened: a poll that read before the callback wrote after
\* it, and the record's status is no longer the callback's.
C1_Witness ==
    /\ poll.pc = "done"
    /\ poll.wrote
    /\ Exists(poll.id)
    /\ CallbackReceived(store[poll.id])
    /\ store[poll.id].status # CallbackStatus(store[poll.id].result_code)

(***************************************************************************)
(* C2                                                                      *)
(***************************************************************************)
\* C2 as stated: once a record's status is not pending it never changes to
\* a different value.
C2_StatusTerminal ==
    [][\A id \in DOMAIN store :
          store[id].status # "pending" =>
              store'[id].status = store[id].status]_vars

\* C2 amended: a record is created with status pending; every later change
\* of status is to a non-pending value, the one that the ResultCode of the
\* update making the change maps to (a callback's result_code or a poll's
\* query_result_code), so a later update with another code replaces one
\* terminal value by another.
C2_StatusFollowsLastUpdate ==
    [][\A id \in DOMAIN store' :
          IF id \notin DOMAIN store THEN store'[id].status = "pending"
          ELSE store'[id].status # store[id].status =>
                 /\ store'[id].status \in Statuses \ {"pending"}
                 /\ IF PollStep
                    THEN /\ PollWrites(id)
                         /\ store'[id].status =
                              PollStatus(store'[id].query_result_code)
                    ELSE /\ CallbackReceived(store'[id])
                         /\ store'[id].status =
                              CallbackStatus(store'[id].result_code)]_vars

\* A record whose terminal status was replaced: the poll had set the status
\* of its code, and a callback with another code has set its own since.
C2_Witness ==
    \E id \in DOMAIN store :
        /\ "query_result_code" \in DOMAIN store[id]
        /\ CallbackReceived(store[id])
        /\ PollStatus(store[id].query_result_code) # "pending"
        /\ store[id].status # PollStatus(store[id].query_result_code)
        /\ store[id].status = CallbackStatus(store[id].result_code)

(***************************************************************************)
(* C3                                                                      *)
(***************************************************************************)
\* C3: a check-status request whose store read finds callback_received =
\* true is answered at once with the stored status, result_code and
\* result_description; it makes no token or query call and no store write
\* (the collection is the same before and after).
C3_AnsweredFromStore ==
    [][ReadsReceived =>
          /\ poll'.pc = "done"
          /\ poll'.calls = {}
          /\ ~poll'.wrote
          /\ store' = store
          /\ poll'.resp.http = 200
          /\ poll'.resp.data.status = store[poll'.id].status
          /\ poll'.resp.data.result_code = store[poll'.id].result_code
          /\ poll'.resp.data.result_description =
                 store[poll'.id].result_description]_vars

\* A request has been answered from a stored, callback-completed record.
C3_Witness ==
    /\ poll.pc = "done"
    /\ poll.resp.http = 200
    /\ poll.calls = {}
    /\ ~poll.wrote
    /\ poll.resp.message = "Transaction status retrieved from database"
    /\ poll.resp.data.status = "completed"
    /\ poll.resp.data.result_code = JInt(0)

(***************************************************************************)
(* C4                                                                      *)
(***************************************************************************)
\* The checkout id and the ResultCode of a body of IdentifiedBodies
IdOf(body) == body.v["Body"].v["stkCallback"].v["CheckoutRequestID"].v

CodeOf(body) == body.v["Body"].v["stkCallback"].v["ResultCode"]

DescOf(body) == body.v["Body"].v["stkCallback"].v["ResultDesc"]

\* C4: whatever the request body and whether or not the record exists, the
\* callback handler answers 200 with a body whose ResultCode is 0 or 1, and
\* answers 0 only when it has applied the callback's update to the stored
\* record of the callback's checkout id.
C4_AlwaysAcknowledges ==
    [][\A body \in CallbackBodies :
          mpesa_callback(body) =>
              /\ ack'[1].http = 200
              /\ ack'[1].body.ResultCode \in {0, 1}
              /\ ack'[1].body.ResultCode = 0 =>
                    /\ body \in IdentifiedBodies
                    /\ IdOf(body) \in DOMAIN store
                    /\ CallbackReceived(store'[IdOf(body)])
                    /\ store'[IdOf(body)].raw_callback = body
                    /\ store'[IdOf(body)].result_code = CodeOf(body)]_vars

\* A fault inside the handler was swallowed: a callback for a record that
\* does not exist yet was answered with the failure acknowledgment while
\* another record is stored.
C4_Witness ==
    /\ ack = <<AckFailed>>
    /\ store # <<>>

(***************************************************************************)
(* C5                                                                      *)
(***************************************************************************)
\* C5 as stated: every callback that carries the checkout id of a stored
\* record sets callback_received = true, result_code and result_description
\* on that record, whatever its ResultCode and its metadata items.
C5_AlwaysRecorded ==
    [][\A body \in MetadataBodies :
          (mpesa_callback(body) /\ IdOf(body) \in DOMAIN store) =>
              /\ CallbackReceived(store'[IdOf(body)])
              /\ store'[IdOf(body)].result_code = CodeOf(body)
              /\ store'[IdOf(body)].result_description = DescOf(body)]_vars

(***************************************************************************)
(* C6                                                                      *)
(***************************************************************************)
\* C6: a callback without a CheckoutRequestID (missing, null or empty) is
\* answered with the rejection acknowledgment of line 257 (ResultCode 1) and
\* leaves every record as it was.
C6_RejectsUnidentified ==
    [][\A body \in UnidentifiedBodies :
          mpesa_callback(body) =>
              /\ ack' = <<AckInvalid>>
              /\ ack'[1].body.ResultCode = 1
              /\ store' = store]_vars

\* An unidentified callback has been rejected while a record is stored.
C6_Witness ==
    /\ ack = <<AckInvalid>>
    /\ store # <<>>

(***************************************************************************)
(* C7                                                                      *)
(***************************************************************************)
\* The metadata items of a body of SuccessBodies
ItemsOf(body) ==
    body.v["Body"].v["stkCallback"].v["CallbackMetadata"].v["Item"].v

\* The record field each metadata name goes to
FieldOf ==
    [Amount |-> "confirmed_amount",
     MpesaReceiptNumber |-> "mpesa_receipt_number",
     TransactionDate |-> "transaction_date",
     PhoneNumber |-> "confirmed_phone_number"]

\* The positions of the items called `name`
Named(items, name) ==
    {i \in 1..Len(items) :
        /\ "Name" \in DOMAIN items[i].v
        /\ items[i].v["Name"] = JStr(name)}

\* The Value of the last item called `name`
LastValue(items, name) ==
    LET i == CHOOSE i \in Named(items, name) :
                 \A j \in Named(items, name) : j <= i
    IN  items[i].v["Value"]

\* C7 as stated: a callback with ResultCode 0 for an existing record sets
\* status = completed and stores every metadata item present by name in its
\* record field (a numeric PhoneNumber as its integer digit string); the
\* fields of absent names stay as they were.
C7_SuccessMergesMetadata ==
    [][\A body \in SuccessBodies :
          (mpesa_callback(body) /\ IdOf(body) \in DOMAIN store) =>
              LET before == store[IdOf(body)]
                  after == store'[IdOf(body)]
                  items == ItemsOf(body)
              IN  /\ after.status = "completed"
                  /\ \A name \in DOMAIN FieldOf :
                        IF Named(items, name) # {}
                        THEN /\ FieldOf[name] \in DOMAIN after
                             /\ (/\ name = "PhoneNumber"
                                 /\ IsNumber(LastValue(items, name))) =>
                                   after.confirmed_phone_number =
                                       IntToStr(LastValue(items, name).v)
                        ELSE /\ (FieldOf[name] \in DOMAIN after)
                                   = (FieldOf[name] \in DOMAIN before)
                             /\ FieldOf[name] \in DOMAIN before =>
                                   after[FieldOf[name]] =
                                       before[FieldOf[name]]]_vars

(***************************************************************************)
(* C8                                                                      *)
(***************************************************************************)
\* C8 as stated: both paths map a result code to the same status.  A record
\* holds the status a callback with ResultCode c wrote (callback_received,
\* result_code = c, never polled); when a poll whose query returned the same
\* c writes to it, the status it writes is the one the record has.
C8_OneMapping ==
    [][\A id \in DOMAIN store :
          (/\ PollWrites(id)
           /\ CallbackReceived(store[id])
           /\ "query_result_code" \notin DOMAIN store[id]
           /\ store[id].result_code = poll.result.result_code) =>
              store'[id].status = store[id].status]_vars

(***************************************************************************)
(* C9                                                                      *)
(***************************************************************************)
\* The table of C9
TableStatus(code) ==
    CASE code = JInt(0) -> "completed"
      [] code = JInt(1) -> "insufficient_funds"
      [] code = JInt(1032) -> "cancelled"
      [] code = JInt(1031) -> "cancelled"
      [] code = JInt(1037) -> "expired"
      [] OTHER -> "failed"

\* C9: the store update of a check-status request (one whose read found
\* callback_received not true and whose query the gateway answered with an
\* integer code) persists the status of the table for the code, persists
\* query_result_code and query_result_description as the gateway sent them,
\* and the request returns the status persisted.
C9_PollPersistsTable ==
    [][\A id \in DOMAIN store :
          PollWrites(id) =>
              LET code == poll.result.result_code
                  doc == store'[id]
              IN  /\ ~CallbackReceived(poll.data)
                  /\ code \in ResultCodes
                  /\ doc.status = TableStatus(code)
                  /\ doc.query_result_code = code
                  /\ doc.query_result_description = GatewayDesc(code)
                  /\ poll'.resp.http = 200
                  /\ poll'.resp.data.status = doc.status]_vars

\* A poll has persisted and returned cancelled for the code 1031.
C9_Witness ==
    /\ poll.pc = "done"
    /\ poll.wrote
    /\ poll.result.result_code = JInt(1031)
    /\ store[poll.id].query_result_code = JInt(1031)
    /\ store[poll.id].status = "cancelled"
    /\ poll.resp.data.status = "cancelled"

(***************************************************************************)
(* C10                                                                     *)
(***************************************************************************)
TerminalFields ==
    {"status", "result_code", "result_description", "callback_received",
     "confirmed_amount", "mpesa_receipt_number", "transaction_date",
     "confirmed_phone_number"}

\* C10: a successful callback applied to a record whose last applied
\* callback was the same one (the record's raw_callback is that body) leaves
\* each terminal field as it was: present or absent as before, and with the
\* value it had.
C10_CallbackIdempotent ==
    [][\A id \in DOMAIN store :
          (/\ "raw_callback" \in DOMAIN store[id]
           /\ store[id].raw_callback \in SuccessBodies
           /\ mpesa_callback(store[id].raw_callback)) =>
              \A field \in TerminalFields :
                  /\ (field \in DOMAIN store'[id]) = (field \in DOMAIN store[id])
                  /\ field \in DOMAIN store[id] =>
                        store'[id][field] = store[id][field]]_vars

\* The same successful callback, with an Amount, has been applied twice.
C10_Witness ==
    /\ redelivered
    /\ ack = <<AckProcessed>>
    /\ \E id \in DOMAIN store :
          /\ "raw_callback" \in DOMAIN store[id]
          /\ store[id].raw_callback \in SuccessBodies
          /\ Named(ItemsOf(store[id].raw_callback), "Amount") # {}
          /\ store[id].status = "completed"
          /\ "confirmed_amount" \in DOMAIN store[id]

(***************************************************************************)
(* C11                                                                     *)
(***************************************************************************)
\* C11 as stated: a check-status request and a GET transaction request for
\* an id with no stored record are answered 404 "Transaction not found";
\* they make no upstream call and no store write.
C11_UnknownIdNotFound ==
    [][/\ (poll.pc = "idle" /\ poll'.pc # "idle" /\ ~Exists(poll'.id)) =>
             /\ poll'.pc = "done"
             /\ poll'.calls = {}
             /\ store' = store
             /\ poll'.resp.http = 404
             /\ poll'.resp.detail = "Transaction not found"
       /\ \A id \in AllIds :
             (get_transaction(id) /\ ~Exists(id)) =>
                 /\ store' = store
                 /\ got'[1].http = 404
                 /\ got'[1].detail = "Transaction not found"]_vars

(***************************************************************************)
(* C12                                                                     *)
(***************************************************************************)
\* The request is one the validation of lines 150-162 refuses
InvalidRequest(phone_in, amount_in) ==
    \/ Len(format_phone_number(phone_in)) # 12
    \/ PyInt(amount_in).v <= 0

\* C12 as stated: an initiate request whose normalized phone number is not
\* 12 digits or whose integer amount is not above 0 is answered 400, with
\* no token or push call made and no record created.
C12_InvalidInputIsClientFault ==
    [][\A phone_in \in PhoneInputs, amount_in \in AmountInputs,
          token_ok \in BOOLEAN, push \in PushReplies :
          (/\ InitiatePush(phone_in, amount_in, token_ok, push)
           /\ InvalidRequest(phone_in, amount_in)) =>
              /\ stk'.pc = "done"
              /\ stk'.calls = {}
              /\ store' = store
              /\ stk'.resp.http = 400]_vars

(***************************************************************************)
(* C13                                                                     *)
(***************************************************************************)
\* C13: a valid initiate request whose push the gateway accepts
\* (ResponseCode "0") goes on to create exactly one record, under the id
\* the gateway issued, with the normalized phone number, the integer
\* amount, the merchant_request_id, status pending and no
\* callback_received; on any other answer of the gateway no record is
\* created, the request ends there, and what it returns quotes the
\* gateway's errorMessage.
C13_AcceptedPushCreatesRecord ==
    [][/\ \A phone_in \in PhoneInputs, amount_in \in AmountInputs,
          push \in PushReplies \ {PushFailed} :
          (/\ stk.pc = "idle"
           /\ stk' # stk
           /\ ~InvalidRequest(phone_in, amount_in)
           /\ InitiatePush(phone_in, amount_in, TRUE, push)) =>
              /\ store' = store
              /\ IF push[1]["ResponseCode"] = JStr("0")
                 THEN /\ stk'.pc = "acked"
                      /\ stk'.id = CheckoutId(issued')
                      /\ issued' = issued + 1
                      /\ stk'.id \notin DOMAIN store
                      /\ stk'.data.phone_number =
                             format_phone_number(phone_in)
                      /\ Len(stk'.data.phone_number) = 12
                      /\ stk'.data.amount.t = "int"
                      /\ stk'.data.amount.v = amount_in.v
                 ELSE /\ stk'.pc = "done"
                      /\ issued' = issued
                      /\ "errorMessage" \in DOMAIN push[1] =>
                            stk'.resp.detail[3][2] = push[1]["errorMessage"]
       /\ (stk.pc = "acked" /\ stk' # stk) =>
              /\ DOMAIN store' = DOMAIN store \cup {stk.id}
              /\ \A id \in DOMAIN store : store'[id] = store[id]
              /\ store'[stk.id] = stk.data
              /\ store'[stk.id].checkout_request_id = stk.id
              /\ store'[stk.id].merchant_request_id = MerchantId(issued)
              /\ store'[stk.id].status = "pending"
              /\ "callback_received" \notin DOMAIN store'[stk.id]
              /\ stk'.resp.http = 200
       /\ (stk.pc = "done" /\ stk' # stk) =>
              /\ stk' = IdleStk
              /\ store' = store]_vars

\* A request with phone 0722000000 has created its record, with the phone
\* number 254722000000.
C13_Witness ==
    /\ stk.pc = "done"
    /\ stk.resp.http = 200
    /\ Exists(stk.id)
    /\ store[stk.id].phone_number =
           <<"2", "5", "4", "7", "2", "2", "0", "0", "0", "0", "0", "0">>
    /\ store[stk.id].amount = JInt(100)
    /\ store[stk.id].status = "pending"

(***************************************************************************)
(* C14                                                                     *)
(***************************************************************************)
\* C14 as stated: after a poll has written status, the record's result_code
\* and result_description are the code and text that poll obtained.
C14_ResultCodeOfLastWriter ==
    [][\A id \in DOMAIN store :
          PollWrites(id) =>
              /\ "result_code" \in DOMAIN store'[id]
              /\ store'[id].result_code = poll.result.result_code
              /\ store'[id].result_description = poll.result.result_desc]_vars

\* C14 amended: result_code and result_description are written by the
\* callback path alone: a record has them exactly when callback_received is
\* true, and they are the ResultCode and ResultDesc of the callback last
\* applied.  A poll's store update leaves them as they were and puts the
\* code and text it obtained in query_result_code and
\* query_result_description, with the status of that code.
C14_ResultCodeIsTheCallbacks ==
    [][\A id \in DOMAIN store' :
          /\ ("result_code" \in DOMAIN store'[id]) = CallbackReceived(store'[id])
          /\ CallbackReceived(store'[id]) =>
                /\ store'[id].result_code = CodeOf(store'[id].raw_callback)
                /\ store'[id].result_description =
                       DescOf(store'[id].raw_callback)
          /\ (id \in DOMAIN store /\ PollWrites(id)) =>
                /\ \A field \in {"result_code", "result_description"} :
                      /\ (field \in DOMAIN store'[id])
                            = (field \in DOMAIN store[id])
                      /\ field \in DOMAIN store[id] =>
                            store'[id][field] = store[id][field]
                /\ store'[id].query_result_code = poll.result.result_code
                /\ store'[id].query_result_description =
                       poll.result.result_desc
                /\ store'[id].status = PollStatus(poll.result.result_code)]_vars

\* A poll has just written the status of its code 1032 to a record whose
\* result_code is still the callback's 0.
C14_Witness ==
    /\ poll.pc = "done"
    /\ poll.wrote
    /\ poll.result.result_code = JInt(1032)
    /\ store[poll.id].query_result_code = JInt(1032)
    /\ "result_code" \in DOMAIN store[poll.id]
    /\ store[poll.id].result_code = JInt(0)
    /\ store[poll.id].status = "cancelled"

(***************************************************************************)
(* C15                                                                     *)
(***************************************************************************)
ConfirmedFields ==
    {"confirmed_amount", "mpesa_receipt_number", "transaction_date",
     "confirmed_phone_number"}

\* The step leaves the fields of `names` in record `id` as they were
Untouched(id, names) ==
    \A field \in names :
        /\ (field \in DOMAIN store'[id]) = (field \in DOMAIN store[id])
        /\ field \in DOMAIN store[id] => store'[id][field] = store[id][field]

\* C15: a record is created without confirmed_amount, mpesa_receipt_number,
\* transaction_date and confirmed_phone_number; the only step that sets or
\* changes one of them is a callback with ResultCode 0 applied to the
\* record (no step of the initiate or check-status handler), and a callback
\* with another ResultCode leaves them as they were even when it carries
\* CallbackMetadata.
C15_MetadataOnlyFromSuccess ==
    [][/\ \A id \in DOMAIN store' :
             IF id \notin DOMAIN store
             THEN DOMAIN store'[id] \cap ConfirmedFields = {}
             ELSE ~Untouched(id, ConfirmedFields) =>
                     /\ poll' = poll
                     /\ stk' = stk
                     /\ ack' = <<AckProcessed>>
                     /\ store'[id].result_code = JInt(0)
                     /\ CodeOf(store'[id].raw_callback) = JInt(0)
       /\ \A body \in RecordsBodies :
             (/\ mpesa_callback(body)
              /\ Exists(IdOf(body))
              /\ CodeOf(body) # JInt(0)) =>
                 /\ store'[IdOf(body)].raw_callback = body
                 /\ Untouched(IdOf(body), ConfirmedFields)]_vars

\* A cancellation callback (1032) carrying CallbackMetadata has been applied
\* to a record, which has none of the four fields.
C15_Witness ==
    \E id \in DOMAIN store :
        /\ CallbackReceived(store[id])
        /\ store[id].result_code = JInt(1032)
        /\ store[id].status = "cancelled"
        /\ ItemsOf(store[id].raw_callback) = PartialItems
        /\ DOMAIN store[id] \cap ConfirmedFields = {}

(***************************************************************************)
(* C17                                                                     *)
(***************************************************************************)
\* C17: no step removes a record; the only step that adds one is the store
\* write of the initiate handler, after the gateway accepted its push, and
\* it adds the record of the id issued; a callback for an id with no
\* record leaves the store without that id.
C17_RecordsOnlyByInitiate ==
    [][/\ DOMAIN store \subseteq DOMAIN store'
       /\ DOMAIN store' # DOMAIN store =>
             /\ stk.pc = "acked"
             /\ stk'.pc = "done"
             /\ poll' = poll
             /\ ack' = ack
             /\ "push" \in stk.calls
             /\ stk.result # <<>>
             /\ stk.result[1]["ResponseCode"] = JStr("0")
             /\ DOMAIN store' = DOMAIN store \cup {stk.id}
       /\ \A body \in RecordsBodies :
             (mpesa_callback(body) /\ ~Exists(IdOf(body))) =>
                 IdOf(body) \notin DOMAIN store']_vars

\* A callback and a status check for an id of no record have both failed,
\* and the store holds the records it held and none for that id.
C17_Witness ==
    /\ ack = <<AckFailed>>
    /\ poll.pc = "done"
    /\ poll.id = UnknownId
    /\ stk.pc = "done"
    /\ stk.result = PushRejected
    /\ DOMAIN store = {CheckoutId(1)}

C19_FailedAttemptLeavesRecord ==
    [][/\ (poll.pc \in {"token", "query"} /\ poll'.pc = "done") =>
             /\ store' = store
             /\ ~poll'.wrote
             /\ poll'.resp.http = 500
             /\ poll'.calls =
                    poll.calls
                    \cup (IF poll.pc = "token" THEN {"token"} ELSE {"query"})
       /\ (poll.pc = "done" /\ poll' # poll) =>
             /\ poll' = IdlePoll
             /\ store' = store]_vars

\* The query call of a status check has failed; the record is still
\* pending and has no query_result_code.
C19_Witness ==
    /\ poll.pc = "done"
    /\ poll.resp = Unreachable
    /\ poll.calls = {"token", "query"}
    /\ ~poll.wrote
    /\ Exists(poll.id)
    /\ store[poll.id].status = "pending"
    /\ "query_result_code" \notin DOMAIN store[poll.id]

(***************************************************************************)
(* C16                                                                     *)
(***************************************************************************)
AsciiDigits == {"0", "1", "2", "3", "4", "5", "6", "7", "8", "9"}

\* The reference normalizer: drop what is no digit, ...
RECURSIVE RefStrip(_)
RefStrip(s) ==
    IF s = <<>> THEN <<>>
    ELSE IF Head(s) \in AsciiDigits THEN <<Head(s)>> \o RefStrip(Tail(s))
    ELSE RefStrip(Tail(s))

\* ... then 0xxx -> 254xxx, 254xxx -> 254xxx, xxx -> 254xxx
RefNormalize(s) ==
    LET d == RefStrip(s) IN
    IF Len(d) >= 1 /\ d[1] = "0"
    THEN <<"2", "5", "4">> \o SubSeq(d, 2, Len(d))
    ELSE IF Len(d) >= 3 /\ d[1] = "2" /\ d[2] = "5" /\ d[3] = "4" THEN d
    ELSE <<"2", "5", "4">> \o d

AllDigits(s) == \A i \in 1..Len(s) : s[i] \in AsciiDigits

\* C16: the result of format_phone_number is that of the reference
\* normalizer on every argument; 10 digits with a leading 0 give 254 and
\* the 9 digits after the 0; 12 digits with a leading 254 come back as they
\* are.
C16_FormatIsReference ==
    formatted.called =>
        LET s == formatted.phone_number
            out == formatted.result
        IN  /\ out = RefNormalize(s)
            /\ (Len(s) = 10 /\ AllDigits(s) /\ s[1] = "0") =>
                   out = <<"2", "5", "4">> \o SubSeq(s, 2, 10)
            /\ (/\ Len(s) = 12 /\ AllDigits(s)
                /\ SubSeq(s, 1, 3) = <<"2", "5", "4">>) => out = s

\* 0722000000 has been normalized to 254722000000.
C16_Witness ==
    /\ formatted.called
    /\ formatted.phone_number = LocalPhone
    /\ formatted.result =
           <<"2", "5", "4", "7", "2", "2", "0", "0", "0", "0", "0", "0">>

(***************************************************************************)
(* C20                                                                     *)
(***************************************************************************)
\* C20 as stated: once the gateway has sent the callback of an accepted
\* push, the record of that id eventually exists with callback_received =
\* true and the status of the callback's code, whether the callback came
\* before or after the store write of the initiate handler.
C20_CallbackEventuallyRecorded ==
    \A id \in IssuedIds :
        <>(id \in delivered) =>
            <>(/\ id \in delivered
               /\ Exists(id)
               /\ CallbackReceived(store[id])
               /\ store[id].status = CallbackStatus(store[id].result_code))

(***************************************************************************)
(* C21                                                                     *)
(***************************************************************************)
\* C21: the gateway issuing distinct ids, a record whose callback_received
\* is true still exists with callback_received true after every step of
\* the initiate, callback and check-status handlers; the store update of a
\* poll leaves the flag as it was, set or not.
C21_CallbackReceivedMonotonic ==
    [][\A id \in DOMAIN store :
          /\ CallbackReceived(store[id]) =>
                /\ id \in DOMAIN store'
                /\ CallbackReceived(store'[id])
          /\ PollWrites(id) => Untouched(id, {"callback_received"})]_vars

\* A poll that read before the callback (1032) has written its completed
\* after it, and the flag is still true.
C21_Witness ==
    /\ poll.pc = "done"
    /\ poll.wrote
    /\ ~CallbackReceived(poll.data)
    /\ CallbackReceived(store[poll.id])
    /\ store[poll.id].result_code = JInt(1032)
    /\ store[poll.id].query_result_code = JInt(0)

(***************************************************************************)
(* C22                                                                     *)
(***************************************************************************)
\* C22: the gateway issuing distinct ids, every record's status is one of
\* the six statuses; a step of the callback or check-status handler that
\* writes to a record leaves it with a status other than pending, so a
\* record that has left pending is never pending again.
C22_NeverBackToPending ==
    [][\A id \in DOMAIN store' :
          /\ store'[id].status \in Statuses
          /\ id \in DOMAIN store =>
                /\ store'[id] # store[id] => store'[id].status # "pending"
                /\ store[id].status # "pending" =>
                      store'[id].status # "pending"]_vars

\* A poll has answered a code neither mapping names (2001) and the record,
\* which a callback had completed, is failed.
C22_Witness ==
    \E id \in DOMAIN store :
        /\ CallbackReceived(store[id])
        /\ store[id].result_code = JInt(0)
        /\ "query_result_code" \in DOMAIN store[id]
        /\ store[id].query_result_code = JInt(2001)
        /\ store[id].status = "failed"

=============================================================================
